---- MODULE Spec2Model ----
(***************************************************************************)
(* State-machine model of vm_manager.py: the VMManager class (configuration *)
(* store, operation poller, instance lifecycle controller) and the command  *)
(* dispatcher main().  The remote compute API is the environment: every     *)
(* remote call either raises a provider error or returns, and a submitted   *)
(* remote operation advances PENDING -> RUNNING -> DONE on its own.         *)
(***************************************************************************)
EXTENDS Integers, Sequences, FiniteSets, TLC

(* ---------------------------- bounds ---------------------------------- *)

\* number of command-line invocations in one behaviour
MaxRuns == 2

\* number of non-terminal statuses one wait_for_operation call may observe
MaxPolls == 2

(* ------------------------- configuration ------------------------------ *)

\* load_config: the hard-coded default document
default_config ==
  [ project_id         |-> "your-gcp-project-id",
    region             |-> "us-central1",
    zone               |-> "",
    vm_name            |-> "python-managed-vm",
    machine_type       |-> "e2-micro",
    os_choice          |-> "ubuntu",
    disk_size          |-> 20,
    enable_http_server |-> TRUE,
    enable_monitoring  |-> FALSE,
    instance_state     |-> "RUNNING",
    auto_start         |-> TRUE,
    auto_restart       |-> TRUE,
    preemptible        |-> FALSE,
    tags               |-> <<"python-managed", "http-server">>,
    labels             |-> ("created-by" :> "python-script"
                            @@ "environment" :> "development") ]

\* __init__: keys of the OS image mapping
os_images == {"ubuntu", "debian", "centos", "rhel"}

\* the empty mapping (no configuration loaded, or no document on disk)
NoDoc == [k \in {} |-> ""]

\* a merge in which the defaults win over the document
MergeDefaultsWin(doc) ==
  [k \in DOMAIN doc \cup DOMAIN default_config |->
      IF k \in DOMAIN default_config THEN default_config[k] ELSE doc[k]]

\* load_config, lines 133-135: the loop over default_config.items() adds
\* every default key missing from the parsed document; keys already there
\* are kept

RECURSIVE MergeLoop(_, _)
MergeLoop(cfg, keys) ==
  IF keys = {} THEN cfg
  ELSE LET key == CHOOSE k \in keys : TRUE
       IN  MergeLoop(IF key \notin DOMAIN cfg
                       THEN cfg @@ (key :> default_config[key])
                       ELSE cfg,
                     keys \ {key})

MergeDefaults(doc) == MergeLoop(doc, DOMAIN default_config)

(* ------------------- documents found on disk -------------------------- *)

\* one entry of an on-disk document: the key is absent when present is FALSE
Entry(present, k, v) == IF present THEN k :> v ELSE NoDoc

\* values an on-disk document may carry for os_choice ("" : key absent;
\* "windows" is not a key of os_images)
DiskOsChoices == {"", "debian", "windows"}

\* an on-disk JSON object over a subset of the keys project_id, os_choice,
\* instance_state, enable_http_server and owner (owner is not a default key)
DiskDoc(p, o, s, h, w) ==
  Entry(p, "project_id", "my-project")
  @@ Entry(o # "", "os_choice", o)
  @@ Entry(s, "instance_state", "TERMINATED")
  @@ Entry(h, "enable_http_server", FALSE)
  @@ Entry(w, "owner", "ops")

DiskDocs ==
  { DiskDoc(p, o, s, h, w) :
      p \in BOOLEAN, o \in DiskOsChoices, s \in BOOLEAN, h \in BOOLEAN,
      w \in BOOLEAN }

\* on-disk JSON objects that set the region, the zone, or both
ZoneDocs ==
  { Entry(r, "region", "us-west1") @@ Entry(z, "zone", "europe-west1-b") :
      r \in BOOLEAN, z \in BOOLEAN }

\* on-disk JSON objects that set the scheduling flags
SchedulingDocs ==
  { Entry(a, "auto_restart", FALSE) @@ Entry(q, "preemptible", TRUE) :
      a \in BOOLEAN, q \in BOOLEAN }

\* on-disk JSON objects for the startup script: an OS choice that has an
\* image but no HTTP server section, and an instance name of its own
ScriptDocs ==
  { Entry(TRUE, "os_choice", "centos"),
    Entry(TRUE, "os_choice", "ubuntu") @@ Entry(TRUE, "vm_name", "demo"),
    Entry(TRUE, "os_choice", "debian") @@ Entry(TRUE, "vm_name", "demo")
      @@ Entry(TRUE, "zone", "europe-west1-b") }

\* the configuration file: absent, unparseable, or a JSON object
Files ==
  { [kind |-> "absent", doc |-> NoDoc], [kind |-> "corrupt", doc |-> NoDoc] }
  \cup { [kind |-> "object", doc |-> d] :
           d \in DiskDocs \cup ZoneDocs \cup SchedulingDocs \cup ScriptDocs }

(* ------------------------------ state --------------------------------- *)

VARIABLES
  file,        \* the configuration file on disk: [kind, doc]
  config,      \* self.config (NoDoc before load_config has returned)
  logger,      \* TRUE once setup_logging has set self.logger
  pc,          \* position of the single thread of control
  cmd,         \* args.command of the running invocation
  interactive, \* args.interactive of the running invocation
  runs,        \* number of invocations started so far
  instance,    \* remote instance: "ABSENT" or its status
  firewall,    \* TRUE when the remote firewall rule <vm_name>-allow-http exists
  op,          \* the remote operation being awaited: [type, scope, status, error]
  seen,        \* statuses fetched by the running wait_for_operation call
  progress,    \* "in progress" reports emitted by the running wait_for_operation
  waitResult,  \* outcome of wait_for_operation: "none", "true", "false", "raised"
  existing_instance, \* create_instance's existence check: "unset", "found", "raised"
  status,      \* local variable status of start_instance / stop_instance
  cascade,     \* TRUE while stop_instance runs as a call from create_instance
  requests,    \* remote mutating requests submitted by this invocation
  saves,       \* number of save_config calls made by this invocation
  result,      \* return value of the command: "none", "true", "false"
  printed,     \* levels of the messages printed to the terminal
  logged,      \* levels of the messages written through self.logger
  config0,     \* self.config when the command was dispatched
  file0,       \* the configuration file when the invocation started
  exception,   \* the exception that ended the process, or "none"
  confirm,     \* the answer typed at the delete confirmation prompt
  instance0,   \* the remote instance when the invocation started
  calls,       \* remote calls made by this invocation, in order: [api, zone, raised]
  polls,       \* operation-status calls made: [type, via, zone, raised]
  fw,          \* outcome of create_firewall_rule: "unset", "skipped", "exists", "created", "failed"
  instance_resource \* the instance resource built by create_instance

vars == << file, config, logger, pc, cmd, interactive, runs, instance, firewall, op, seen,
           progress, waitResult, existing_instance, status, cascade, requests, saves, result,
           printed, logged, config0, file0, exception, confirm, instance0,
           calls, polls, fw, instance_resource >>

remoteVars == << instance, firewall, op >>
pollVars   == << seen, progress, waitResult >>
localVars  == << existing_instance, status, cascade >>
startVars  == << config0, file0 >>

\* commands of main()'s argument parser
Commands ==
  {"create", "start", "stop", "restart", "delete", "status", "info", "summary",
   "config"}

\* answers typed at the delete confirmation prompt, as sequences of
\* characters
Answers ==
  { <<"y", "e", "s">>, <<"Y", "E", "S">>, <<"Y", "e", "s">>, <<"y">>,
    << >>, <<"n", "o">> }

\* str.lower() on the characters the answers are made of
LowerChar(c) ==
  CASE c = "Y" -> "y"
    [] c = "E" -> "e"
    [] c = "S" -> "s"
    [] OTHER   -> c

\* a comparison that does not fold the case
LowerNone(answer) == answer

\* main, line 806: confirm.lower()
Lower(answer) == [i \in DOMAIN answer |-> LowerChar(answer[i])]

\* no instance resource has been built
NoResource == [built |-> FALSE]

\* statuses a remote instance may be found in
InstanceStatuses == {"RUNNING", "TERMINATED", "STOPPED"}

NoOp == [type |-> "none", scope |-> "none", status |-> "NONE", error |-> FALSE]

\* a freshly submitted remote operation
NewOp(type, scope) ==
  [type |-> type, scope |-> scope, status |-> "PENDING", error |-> FALSE]

Init ==
  /\ file \in Files
  /\ config = NoDoc
  /\ logger = FALSE
  /\ pc = "idle"
  /\ cmd = "none"
  /\ interactive = FALSE
  /\ runs = 0
  /\ instance \in {"ABSENT"} \cup InstanceStatuses
  /\ firewall \in BOOLEAN
  /\ op = NoOp
  /\ seen = << >>
  /\ progress = 0
  /\ waitResult = "none"
  /\ existing_instance = "unset"
  /\ status = "unset"
  /\ cascade = FALSE
  /\ requests = {}
  /\ saves = 0
  /\ result = "none"
  /\ printed = {}
  /\ logged = {}
  /\ config0 = NoDoc
  /\ file0 = file
  /\ exception = "none"
  /\ confirm = << >>
  /\ instance0 = instance
  /\ calls = << >>
  /\ polls = {}
  /\ fw = "unset"
  /\ instance_resource = NoResource

(* ----------------------------- logging -------------------------------- *)

\* log_info / log_success / log_warning / log_error after setup_logging:
\* the message is printed and then handed to self.logger
Log(levels) ==
  /\ printed' = printed \cup levels
  /\ logged' = logged \cup levels

\* the same call while self.logger is not set: print_colored prints the
\* message, then self.logger raises AttributeError
LogWithoutLogger(level) ==
  /\ printed' = printed \cup {level}
  /\ logged' = logged

(* ------------------------ main: construction -------------------------- *)

\* main, lines 782-785: parse the arguments and construct the manager
Main ==
  /\ pc = "idle"
  /\ runs < MaxRuns
  /\ \E c \in Commands : cmd' = c
  /\ \E flag \in BOOLEAN : interactive' = flag
  /\ runs' = runs + 1
  /\ pc' = "load_config"
  /\ file0' = file
  /\ instance0' = instance
  /\ UNCHANGED << file, config, logger, remoteVars, pollVars, localVars,
                  requests, saves, result, printed, logged, config0,
                  exception, confirm, calls, polls, fw, instance_resource >>

\* load_config, called from __init__ before setup_logging
load_config ==
  /\ pc = "load_config"
  /\ \/ /\ file.kind = "object"
        /\ config' = MergeDefaults(file.doc)
        /\ pc' = "setup_logging"
        /\ UNCHANGED << file, printed, logged, exception >>
     \/ /\ file.kind = "corrupt"
        \* json.load raises; the handler calls log_error, whose
        \* self.logger.error raises AttributeError out of load_config
        /\ IF logger
             THEN /\ Log({"ERROR"})
                  /\ config' = default_config
                  /\ pc' = "setup_logging"
             ELSE /\ LogWithoutLogger("ERROR")
                  /\ config' = config
                  /\ pc' = "crashed"
        /\ exception' = IF logger THEN exception ELSE "AttributeError"
        /\ UNCHANGED file
     \/ /\ file.kind = "absent"
        \* the file is written first, then log_info runs
        /\ file' = [kind |-> "object", doc |-> default_config]
        /\ IF logger
             THEN /\ Log({"INFO"})
                  /\ config' = default_config
                  /\ pc' = "setup_logging"
             ELSE /\ LogWithoutLogger("INFO")
                  /\ config' = config
                  /\ pc' = "crashed"
        /\ exception' = IF logger THEN exception ELSE "AttributeError"
  /\ UNCHANGED << logger, cmd, interactive, runs, remoteVars, pollVars, localVars,
                  requests, saves, result, startVars,
                  confirm, instance0, calls, polls, fw, instance_resource >>

\* setup_logging
setup_logging ==
  /\ pc = "setup_logging"
  /\ logger' = TRUE
  /\ Log({"INFO"})
  /\ pc' = "setup_gcp_clients"
  /\ UNCHANGED << file, config, cmd, interactive, runs, remoteVars, pollVars, localVars,
                  requests, saves, result, startVars,
                  exception, confirm, instance0, calls, polls, fw, instance_resource >>

\* setup_gcp_clients: google.auth.default() raises, or yields a project
\* ("" : none detected)
DetectedProjects == {"", "detected-project"}

setup_gcp_clients ==
  /\ pc = "setup_gcp_clients"
  /\ \/ \* credential discovery raises: two error lines, sys.exit(1)
        /\ Log({"ERROR"})
        /\ pc' = "exited"
        /\ UNCHANGED config
     \/ \E project \in DetectedProjects :
          IF config["project_id"] = "your-gcp-project-id"
            THEN IF project # ""
                   THEN /\ config' = [config EXCEPT !["project_id"] = project]
                        /\ Log({"INFO", "SUCCESS"})
                        /\ pc' = "dispatch"
                   ELSE /\ Log({"ERROR"})
                        /\ pc' = "exited"
                        /\ UNCHANGED config
            ELSE /\ Log({"SUCCESS"})
                 /\ pc' = "dispatch"
                 /\ UNCHANGED config
  /\ UNCHANGED << file, logger, cmd, interactive, runs, remoteVars, pollVars, localVars,
                  requests, saves, result, startVars,
                  exception, confirm, instance0, calls, polls, fw, instance_resource >>

\* a confirmation that also accepts the answer "y"
ConfirmedShort(answer) == Lower(answer) \in {<<"y", "e", "s">>, <<"y">>}

\* main, line 806: confirm.lower() == 'yes'
Confirmed(answer) == Lower(answer) = <<"y", "e", "s">>

\* an editor that only the config command reaches
InteractiveModeConfigOnly(flag, c) == c = "config"

\* main, line 788: args.interactive or args.command == 'config'
InteractiveMode(flag, c) == flag \/ c = "config"

\* main, lines 787-790: the interactive editor runs instead of the command
DispatchInteractive ==
  /\ pc = "dispatch"
  /\ InteractiveMode(interactive, cmd)
  /\ pc' = "interactive_config"
  /\ config0' = config
  /\ UNCHANGED << file, config, logger, cmd, interactive, runs, remoteVars,
                  pollVars, localVars, requests, saves, result, printed,
                  logged, file0, exception, confirm, instance0, calls, polls,
                  fw, instance_resource >>

\* main, lines 792-815: dispatch the command; delete asks for a
\* confirmation first (lines 805-809)
Dispatch ==
  /\ pc = "dispatch"
  /\ ~InteractiveMode(interactive, cmd)
  /\ \E answer \in Answers :
       /\ confirm' = IF cmd = "delete" THEN answer ELSE confirm
       /\ pc' = CASE cmd = "create"  -> "create_check"
                  [] cmd = "start"   -> "start_status"
                  [] cmd = "stop"    -> "stop_status"
                  [] cmd = "restart" -> "restart_request"
                  [] cmd = "delete"  -> IF Confirmed(answer)
                                          THEN "delete_request" ELSE "done"
                  [] cmd = "status"  -> "show_status"
                  [] cmd = "info"    -> "show_access_info"
                  [] cmd = "summary" -> "show_deployment_summary"
       /\ IF cmd = "delete" /\ ~Confirmed(answer)
            THEN Log({"INFO"})
            ELSE UNCHANGED << printed, logged >>
  /\ config0' = config
  /\ UNCHANGED << file, config, logger, cmd, interactive, runs, remoteVars, pollVars,
                  localVars, requests, saves, result, file0,
                  exception, instance0, calls, polls, fw, instance_resource >>

(* --------------------------- remote API -------------------------------- *)

\* a zone resolution that ignores the configured zone
get_zone_region_only(cfg) == cfg["region"] \o "-a"

\* get_zone, lines 183-187
get_zone(cfg) ==
  IF cfg["zone"] # "" THEN cfg["zone"] ELSE cfg["region"] \o "-a"

\* one remote call is made: api names the client method, name the instance
\* or firewall rule it is about, zone is the zone argument ("" for a call
\* that takes none), raised tells whether it raised a provider error
Call(api, name, zone, raised) ==
  calls' = Append(calls, [api |-> api, name |-> name, zone |-> zone,
                          raised |-> raised])

\* create_firewall_rule, line 280: the name of the firewall rule
rule_name(cfg) == cfg["vm_name"] \o "-allow-http"

\* instances_client.get: raises when the instance is absent, and may raise a
\* provider error otherwise; Found(raises) is TRUE when the call returns
Found(raises) == instance # "ABSENT" /\ ~raises

\* get_instance_status: the fetched status, or None when the get raised
get_instance_status(raises) == IF Found(raises) THEN instance ELSE "None"

\* wait_for_operation, line 250: hasattr(operation, 'name') holds for every
\* operation handle the clients return, zone-scoped or global
HasName(o) == o.type # "none"

\* wait_for_operation, lines 250-262: the operation-status call chosen
PollScope(o) == IF HasName(o) THEN "zone" ELSE "global"

\* what a completed operation does to the remote resources
Effect(type) ==
  /\ instance' = CASE type = "instance creation" -> "RUNNING"
                   [] type = "instance start"    -> "RUNNING"
                   [] type = "instance stop"     -> "TERMINATED"
                   [] type = "instance deletion" -> "ABSENT"
                   [] OTHER                      -> instance
  /\ firewall' = IF type = "firewall rule creation" THEN TRUE ELSE firewall

\* the remote side advances the awaited operation by one status
RemoteProgress ==
  /\ pc = "wait"
  /\ \/ /\ op.status = "PENDING"
        /\ op' = [op EXCEPT !.status = "RUNNING"]
        /\ UNCHANGED << instance, firewall >>
     \/ /\ op.status = "RUNNING"
        /\ \E err \in BOOLEAN :
             /\ op' = [op EXCEPT !.status = "DONE", !.error = err]
             /\ IF err THEN UNCHANGED << instance, firewall >>
                       ELSE Effect(op.type)
  /\ UNCHANGED << file, config, logger, pc, cmd, interactive, runs, pollVars,
                  localVars,
                  requests, saves, result, printed, logged, startVars,
                  exception, confirm, instance0, calls, polls, fw, instance_resource >>

(* ------------------------------ poller --------------------------------- *)

\* the caller enters wait_for_operation with the handle o (line 247)
EnterWait(o) ==
  /\ op' = o
  /\ seen' = << >>
  /\ progress' = 0
  /\ waitResult' = "none"
  /\ pc' = "wait"

\* a poller that gives up on an operation it finds RUNNING
PollResultTimeout(st, err) ==
  IF st = "DONE" THEN (IF err THEN "false" ELSE "true")
  ELSE IF st = "RUNNING" THEN "false" ELSE "continue"

\* a poller that ignores the error attached to a finished operation
PollResultNoError(st, err) == IF st = "DONE" THEN "true" ELSE "continue"

\* wait_for_operation, lines 264-273: what one fetched status leads to
PollResult(st, err) ==
  IF st = "DONE" THEN (IF err THEN "false" ELSE "true") ELSE "continue"

\* the operation types awaited by the six callers of wait_for_operation
OperationTypes ==
  { "firewall rule creation", "instance creation", "instance start",
    "instance stop", "instance restart", "instance deletion" }

\* callers among which create_firewall_rule awaits outside its try block
CallerCatchesButFirewall(type) ==
  type \in OperationTypes \ {"firewall rule creation"}

\* the calls of wait_for_operation that sit inside a try block with an
\* except Exception handler: lines 307-321, 432-454, 484-503, 520-537,
\* 546-563 and 572-587, that is, all of them
CallerCatches(type) == type \in OperationTypes

\* wait_for_operation, lines 249-273: one iteration of the loop; a status
\* call through the client of the other scope does not find the operation
\* and raises
wait_for_operation ==
  /\ pc = "wait"
  /\ \E raises \in BOOLEAN :
       LET via    == PollScope(op)
           raised == raises \/ via # op.scope
       IN
       /\ polls' = polls \cup
            {[ type |-> op.type, via |-> via,
               zone |-> IF via = "zone" THEN get_zone(config) ELSE "",
               raised |-> raised ]}
       /\ IF raised
            THEN \* the status call raises out of wait_for_operation
                 /\ waitResult' = "raised"
                 /\ IF CallerCatches(op.type)
                      THEN /\ pc' = "wait_return"
                           /\ UNCHANGED exception
                      ELSE /\ pc' = "crashed"
                           /\ exception' = "ProviderError"
                 /\ UNCHANGED << seen, progress, printed, logged >>
            ELSE IF PollResult(op.status, op.error) # "continue"
              THEN /\ seen' = Append(seen, op.status)
                   /\ waitResult' = PollResult(op.status, op.error)
                   /\ Log({IF waitResult' = "false" THEN "ERROR"
                                                    ELSE "SUCCESS"})
                   /\ pc' = "wait_return"
                   /\ UNCHANGED << progress, exception >>
              ELSE /\ Len(seen) < MaxPolls
                   /\ seen' = Append(seen, op.status)
                   /\ progress' = progress + 1
                   /\ Log({"INFO"})
                   /\ UNCHANGED << waitResult, pc, exception >>
  /\ UNCHANGED << file, config, logger, cmd, interactive, runs, remoteVars, localVars,
                  requests, saves, result, startVars,
                  confirm, instance0, calls, fw, instance_resource >>

\* the handle is discarded when wait_for_operation is left; an operation
\* that was still in flight completes or fails on the remote side
LeaveWait ==
  /\ op' = NoOp
  /\ seen' = << >>
  /\ progress' = 0
  /\ waitResult' = "none"
  /\ IF op.status = "DONE"
       THEN UNCHANGED << instance, firewall >>
       ELSE \E err \in BOOLEAN :
              IF err THEN UNCHANGED << instance, firewall >>
                     ELSE Effect(op.type)

(* ------------------------- configuration store ------------------------ *)

\* a save that is never carried out
save_config_skipped(cfg, ok) ==
  /\ saves' = saves
  /\ file' = file

\* save_config: the write succeeds and replaces the file by self.config, or
\* it raises, which is reported and swallowed; cfg is the configuration
\* being saved
save_config(cfg, ok) ==
  /\ saves' = saves + 1
  /\ file' = IF ok THEN [kind |-> "object", doc |-> cfg] ELSE file

SaveLevel(ok) == IF ok THEN "SUCCESS" ELSE "ERROR"

(* ------------------------------ create --------------------------------- *)

\* an existence check whose outcome is ignored
ExistsReturnsNever(found) == FALSE

\* create_instance, lines 338-347: the existence check returns True from
\* create_instance exactly when instances_client.get returned
ExistsReturns(found) == found

\* create_instance, lines 325-347: the existence check
create_instance ==
  /\ pc = "create_check"
  /\ \E raises \in BOOLEAN :
       /\ existing_instance' = IF Found(raises) THEN "found" ELSE "raised"
       /\ Call("instances.get", config["vm_name"], get_zone(config),
               ~Found(raises))
       /\ IF ExistsReturns(Found(raises))
            THEN /\ Log({"INFO", "WARNING"})
                 /\ result' = "true"
                 /\ pc' = "show_deployment_summary"
            ELSE /\ Log({"INFO"})
                 /\ result' = result
                 /\ pc' = "create_firewall_rule"
  /\ UNCHANGED << file, config, logger, cmd, interactive, runs, remoteVars, pollVars,
                  status, cascade, requests, saves, startVars,
                  exception, confirm, instance0, polls, fw, instance_resource >>

\* a firewall step that goes on to the instance although the rule could
\* not be created
FirewallFailureTargetIgnored == "create_build"

\* create_instance, lines 350-352: a failed firewall step ends create
FirewallFailureTarget == "done"

\* create_firewall_rule, lines 277-293: skip, or look the rule up
create_firewall_rule ==
  /\ pc = "create_firewall_rule"
  /\ IF ~config["enable_http_server"]
       THEN /\ pc' = "create_build"
            /\ fw' = "skipped"
            /\ UNCHANGED << printed, logged, calls >>
       ELSE \E raises \in BOOLEAN :
              /\ Call("firewalls.get", rule_name(config), "",
                      ~(firewall /\ ~raises))
              /\ IF firewall /\ ~raises
                   THEN /\ pc' = "create_build"
                        /\ fw' = "exists"
                        /\ Log({"INFO"})
                   ELSE /\ pc' = "firewall_insert"
                        /\ fw' = "absent"
                        /\ Log({"INFO"})
  /\ UNCHANGED << file, config, logger, cmd, interactive, runs, remoteVars, pollVars,
                  localVars, requests, saves, result, startVars,
                  exception, confirm, instance0, polls, instance_resource >>

\* create_firewall_rule, lines 307-311 and 319-321: firewalls_client.insert;
\* a failure makes create_instance return False (lines 350-352)
create_firewall_rule_insert ==
  /\ pc = "firewall_insert"
  /\ requests' = requests \cup {"firewall_insert"}
  /\ \E raises \in BOOLEAN :
       /\ Call("firewalls.insert", rule_name(config), "", raises \/ firewall)
       /\ IF raises \/ firewall
            THEN /\ Log({"ERROR"})
                 /\ fw' = "failed"
                 /\ result' = IF FirewallFailureTarget = "done" THEN "false"
                                                                ELSE result
                 /\ pc' = FirewallFailureTarget
                 /\ UNCHANGED << op, pollVars >>
            ELSE /\ Log({"INFO"})
                 /\ EnterWait(NewOp("firewall rule creation", "global"))
                 /\ UNCHANGED << result, fw >>
  /\ UNCHANGED << file, config, logger, cmd, interactive, runs, instance, firewall,
                  localVars, saves, startVars,
                  exception, confirm, instance0, polls, instance_resource >>

\* create_firewall_rule, lines 313-321, and create_instance, lines 350-352
create_firewall_rule_after ==
  /\ pc = "wait_return"
  /\ op.type = "firewall rule creation"
  /\ LeaveWait
  /\ IF waitResult = "true"
       THEN /\ Log({"SUCCESS"})
            /\ fw' = "created"
            /\ pc' = "create_build"
            /\ UNCHANGED result
       ELSE /\ Log({"ERROR"})
            /\ fw' = "failed"
            /\ result' = IF FirewallFailureTarget = "done" THEN "false"
                                                           ELSE result
            /\ pc' = FirewallFailureTarget
  /\ UNCHANGED << file, config, logger, cmd, interactive, runs, localVars, requests,
                  saves, startVars,
                  exception, confirm, instance0, calls, polls, instance_resource >>

\* str.title() on the OS choices
Title(os) ==
  CASE os = "ubuntu"  -> "Ubuntu"
    [] os = "debian"  -> "Debian"
    [] os = "centos"  -> "Centos"
    [] os = "rhel"    -> "Rhel"
    [] os = "windows" -> "Windows"

\* generate_startup_script, lines 191-197: the header log lines
ScriptHeader(cfg) ==
  [ section |-> "header", os |-> Title(cfg["os_choice"]),
    vm_name |-> cfg["vm_name"], machine_type |-> cfg["machine_type"],
    zone |-> get_zone(cfg) ]

\* generate_startup_script, lines 199-237: the HTTP server section
ScriptHttp(cfg) ==
  IF cfg["enable_http_server"]
    THEN IF cfg["os_choice"] = "ubuntu"
           THEN << [ section |-> "apache", vm_name |-> cfg["vm_name"],
                     zone |-> get_zone(cfg),
                     machine_type |-> cfg["machine_type"] ] >>
           ELSE IF cfg["os_choice"] = "debian"
             THEN << [ section |-> "nginx", vm_name |-> cfg["vm_name"] ] >>
             ELSE << >>
    ELSE << >>

\* generate_startup_script, lines 239-241: the footer log line
ScriptFooter(cfg) == [ section |-> "footer", os |-> Title(cfg["os_choice"]) ]

\* a generator that installs Apache whatever the OS choice
generate_startup_script_apache(cfg) ==
  << ScriptHeader(cfg),
     [ section |-> "apache", vm_name |-> cfg["vm_name"],
       zone |-> get_zone(cfg), machine_type |-> cfg["machine_type"] ],
     ScriptFooter(cfg) >>

\* generate_startup_script, lines 189-243: the script as the sequence of
\* its sections, each with the values formatted into it
generate_startup_script(cfg) ==
  << ScriptHeader(cfg) >> \o ScriptHttp(cfg) \o << ScriptFooter(cfg) >>

\* a scheduling policy that keeps automatic restart on preemptible instances
SchedulingKeepsRestart(cfg) ==
  [ preemptible         |-> cfg["preemptible"],
    automatic_restart   |-> cfg["auto_restart"],
    on_host_maintenance |-> IF cfg["preemptible"] THEN "TERMINATE"
                                                  ELSE "MIGRATE" ]

\* create_instance, lines 386-390: the scheduling policy
Scheduling(cfg) ==
  [ preemptible         |-> cfg["preemptible"],
    automatic_restart   |-> cfg["auto_restart"] /\ ~cfg["preemptible"],
    on_host_maintenance |-> IF cfg["preemptible"] THEN "TERMINATE"
                                                  ELSE "MIGRATE" ]

\* create_instance, lines 355-430: build the instance resource;
\* self.os_images[os_choice] (line 366) raises KeyError outside any try
\* block, before the startup script is generated (line 406)
create_instance_build ==
  /\ pc = "create_build"
  /\ IF config["os_choice"] \in os_images
       THEN /\ pc' = "create_insert"
            /\ instance_resource' =
                 [ built          |-> TRUE,
                   name           |-> config["vm_name"],
                   zone           |-> get_zone(config),
                   source_image   |-> config["os_choice"],
                   scheduling     |-> Scheduling(config),
                   startup_script |-> generate_startup_script(config) ]
            /\ UNCHANGED exception
       ELSE /\ pc' = "crashed"
            /\ exception' = "KeyError"
            /\ UNCHANGED instance_resource
  /\ UNCHANGED << file, config, logger, cmd, interactive, runs, remoteVars, pollVars,
                  localVars, requests, saves, result, printed, logged,
                  startVars,
                  confirm, instance0, calls, polls, fw >>

\* a handler that removes the firewall rule when the insert has failed
FirewallRolledBack(rule, failed) == rule /\ ~failed

\* create_instance, lines 452-454: the handler of a failed insert logs the
\* error and returns False; the firewall rule stays as it is
FirewallAfterInsert(rule, failed) == rule

\* create_instance, lines 432-438 and 452-454: instances_client.insert
create_instance_insert ==
  /\ pc = "create_insert"
  /\ requests' = requests \cup {"insert"}
  /\ \E raises \in BOOLEAN :
       /\ Call("instances.insert", instance_resource.name,
               get_zone(config), raises \/ instance # "ABSENT")
       /\ firewall' = FirewallAfterInsert(firewall,
                                          raises \/ instance # "ABSENT")
       /\ IF raises \/ instance # "ABSENT"
            THEN /\ Log({"INFO", "ERROR"})
                 /\ result' = "false"
                 /\ pc' = "done"
                 /\ UNCHANGED << op, pollVars >>
            ELSE /\ Log({"INFO"})
                 /\ EnterWait(NewOp("instance creation", "zone"))
                 /\ UNCHANGED result
  /\ UNCHANGED << file, config, logger, cmd, interactive, runs, instance,
                  localVars, saves, startVars,
                  exception, confirm, instance0, polls, fw, instance_resource >>

\* a create that never stops the new instance
CascadeStopNever(cfg) == FALSE

\* create_instance, line 444: the new instance is to be stopped
CascadeStop(cfg) == cfg["instance_state"] = "TERMINATED"

\* create_instance, lines 440-454: after the creation has been awaited
create_instance_after ==
  /\ pc = "wait_return"
  /\ op.type = "instance creation"
  /\ LeaveWait
  /\ IF waitResult = "true"
       THEN IF CascadeStop(config)
              THEN /\ Log({"SUCCESS", "INFO"})
                   /\ cascade' = TRUE
                   /\ pc' = "stop_status"
                   /\ UNCHANGED result
              ELSE /\ Log({"SUCCESS"})
                   /\ result' = "true"
                   /\ pc' = "show_deployment_summary"
                   /\ UNCHANGED cascade
       ELSE /\ IF waitResult = "raised" THEN Log({"ERROR"})
                                        ELSE UNCHANGED << printed, logged >>
            /\ result' = "false"
            /\ pc' = "done"
            /\ UNCHANGED cascade
  /\ UNCHANGED << file, config, logger, cmd, interactive, runs, existing_instance, status,
                  requests, saves, startVars,
                  exception, confirm, instance0, calls, polls, fw, instance_resource >>

\* a create that hands on what stop_instance returned
CreateResultOfStop(stopped) == stopped

\* create_instance, lines 446 and 448: the value of stop_instance is not
\* bound to anything and True is returned
CreateResult(stopped) == "true"

\* create_instance, lines 446-448: stop_instance has returned; its value
\* is dropped and create_instance returns True
create_instance_return ==
  /\ pc = "create_stop_return"
  /\ result' = CreateResult(result)
  /\ pc' = "show_deployment_summary"
  /\ UNCHANGED << file, config, logger, cmd, interactive, runs, remoteVars, pollVars,
                  localVars, requests, saves, printed, logged, startVars,
                  exception, confirm, instance0, calls, polls, fw, instance_resource >>

(* ------------------------------- stop ---------------------------------- *)

\* stop_instance returns v: to main (line 801), or to create_instance
\* (line 446)
StopReturn(v) ==
  /\ cascade' = FALSE
  /\ result' = v
  /\ pc' = IF cascade THEN "create_stop_return" ELSE "done"

\* a pre-check that knows only TERMINATED
StoppedStatusesShort == {"TERMINATED"}

\* stop_instance, line 511: the statuses that count as already stopped
StoppedStatuses == {"TERMINATED", "STOPPED"}

\* stop_instance, lines 507-518: the status pre-check
stop_instance ==
  /\ pc = "stop_status"
  /\ \E raises \in BOOLEAN :
       /\ status' = get_instance_status(raises)
       /\ Call("instances.get", config["vm_name"], get_zone(config),
               ~Found(raises))
       /\ IF status' \in StoppedStatuses
            THEN /\ Log({"WARNING"})
                 /\ StopReturn("true")
            ELSE IF status' = "None"
              THEN /\ Log({"ERROR"})
                   /\ StopReturn("false")
              ELSE /\ Log({"INFO"})
                   /\ pc' = "stop_request"
                   /\ UNCHANGED << cascade, result >>
  /\ UNCHANGED << file, config, logger, cmd, interactive, runs, remoteVars, pollVars,
                  existing_instance, requests, saves, startVars,
                  exception, confirm, instance0, polls, fw, instance_resource >>

\* stop_instance, lines 520-525 and 535-537: instances_client.stop
stop_instance_request ==
  /\ pc = "stop_request"
  /\ requests' = requests \cup {"stop"}
  /\ \E raises \in BOOLEAN :
       /\ Call("instances.stop", config["vm_name"], get_zone(config), raises)
       /\ IF raises
            THEN /\ Log({"ERROR"})
                 /\ StopReturn("false")
                 /\ UNCHANGED << op, pollVars >>
            ELSE /\ Log({"INFO"})
                 /\ EnterWait(NewOp("instance stop", "zone"))
                 /\ UNCHANGED << cascade, result >>
  /\ UNCHANGED << file, config, logger, cmd, interactive, runs, instance, firewall,
                  existing_instance, status, saves, startVars,
                  exception, confirm, instance0, polls, fw, instance_resource >>

\* the desired state stop_instance records (line 529)
StopState == "TERMINATED"

\* a start or stop that records the desired state whatever the poller said
OperationSucceededAlways(res) == TRUE

\* start_instance line 491, stop_instance line 527: the value of
\* wait_for_operation decides whether the desired state is recorded
OperationSucceeded(res) == res = "true"

\* stop_instance, lines 527-537: after the stop has been awaited
stop_instance_after ==
  /\ pc = "wait_return"
  /\ op.type = "instance stop"
  /\ LeaveWait
  /\ IF OperationSucceeded(waitResult)
       THEN \E ok \in BOOLEAN :
              /\ config' = [config EXCEPT !["instance_state"] = StopState]
              /\ save_config(config', ok)
              /\ Log({"SUCCESS", SaveLevel(ok)})
              /\ StopReturn("true")
       ELSE /\ IF waitResult = "raised" THEN Log({"ERROR"})
                                        ELSE UNCHANGED << printed, logged >>
            /\ StopReturn("false")
            /\ UNCHANGED << config, file, saves >>
  /\ UNCHANGED << logger, cmd, interactive, runs, existing_instance, status, requests,
                  startVars,
                  exception, confirm, instance0, calls, polls, fw, instance_resource >>

(* ------------------------------- start --------------------------------- *)

\* a pre-check that lets a missing instance through
StartPrecheckNoneStarts(st) ==
  IF st = "RUNNING" THEN "true" ELSE "request"

\* start_instance, lines 475-480: return True, return False, or go on to
\* the start request
StartPrecheck(st) ==
  IF st = "RUNNING" THEN "true"
  ELSE IF st = "None" THEN "false"
  ELSE "request"

\* start_instance, lines 471-482: the status pre-check
start_instance ==
  /\ pc = "start_status"
  /\ \E raises \in BOOLEAN :
       /\ status' = get_instance_status(raises)
       /\ Call("instances.get", config["vm_name"], get_zone(config),
               ~Found(raises))
       /\ IF StartPrecheck(status') = "true"
            THEN /\ Log({"WARNING"})
                 /\ result' = "true"
                 /\ pc' = "done"
            ELSE IF StartPrecheck(status') = "false"
              THEN /\ Log({"ERROR"})
                   /\ result' = "false"
                   /\ pc' = "done"
              ELSE /\ Log({"INFO"})
                   /\ pc' = "start_request"
                   /\ UNCHANGED result
  /\ UNCHANGED << file, config, logger, cmd, interactive, runs, remoteVars, pollVars,
                  existing_instance, cascade, requests, saves, startVars,
                  exception, confirm, instance0, polls, fw, instance_resource >>

\* start_instance, lines 484-489 and 501-503: instances_client.start
start_instance_request ==
  /\ pc = "start_request"
  /\ requests' = requests \cup {"start"}
  /\ \E raises \in BOOLEAN :
       /\ Call("instances.start", config["vm_name"], get_zone(config), raises)
       /\ IF raises
            THEN /\ Log({"ERROR"})
                 /\ result' = "false"
                 /\ pc' = "done"
                 /\ UNCHANGED << op, pollVars >>
            ELSE /\ Log({"INFO"})
                 /\ EnterWait(NewOp("instance start", "zone"))
                 /\ UNCHANGED result
  /\ UNCHANGED << file, config, logger, cmd, interactive, runs, instance, firewall,
                  localVars, saves, startVars,
                  exception, confirm, instance0, polls, fw, instance_resource >>

\* the desired state start_instance records (line 493)
StartState == "RUNNING"

\* start_instance, lines 491-503: after the start has been awaited
start_instance_after ==
  /\ pc = "wait_return"
  /\ op.type = "instance start"
  /\ LeaveWait
  /\ IF OperationSucceeded(waitResult)
       THEN \E ok \in BOOLEAN :
              /\ config' = [config EXCEPT !["instance_state"] = StartState]
              /\ save_config(config', ok)
              /\ Log({"SUCCESS", SaveLevel(ok)})
              /\ pc' = "start_sleep"
              /\ UNCHANGED result
       ELSE /\ IF waitResult = "raised" THEN Log({"ERROR"})
                                        ELSE UNCHANGED << printed, logged >>
            /\ result' = "false"
            /\ pc' = "done"
            /\ UNCHANGED << config, file, saves >>
  /\ UNCHANGED << logger, cmd, interactive, runs, localVars, requests, startVars,
                  exception, confirm, instance0, calls, polls, fw, instance_resource >>

\* start_instance, line 495: time.sleep(5)
start_instance_sleep ==
  /\ pc = "start_sleep"
  /\ pc' = "show_access_info"
  /\ UNCHANGED << file, config, logger, cmd, interactive, runs, remoteVars, pollVars,
                  localVars, requests, saves, result, printed, logged,
                  startVars,
                  exception, confirm, instance0, calls, polls, fw, instance_resource >>

(* ------------------------- restart and delete -------------------------- *)

\* a restart that queries the status first, the way start_instance does
restart_instance_prechecked ==
  /\ pc = "restart_request"
  /\ pc' = "start_status"
  /\ UNCHANGED << file, config, logger, cmd, interactive, runs, remoteVars, pollVars,
                  localVars, requests, saves, result, printed, logged,
                  startVars, exception, confirm, instance0, calls, polls, fw,
                  instance_resource >>

\* restart_instance, lines 541-551 and 561-563: instances_client.reset,
\* with no status query before it; the remote side rejects the reset of an
\* instance that does not exist
restart_instance ==
  /\ pc = "restart_request"
  /\ requests' = requests \cup {"reset"}
  /\ \E raises \in BOOLEAN :
       /\ Call("instances.reset", config["vm_name"], get_zone(config),
               raises \/ instance = "ABSENT")
       /\ IF raises \/ instance = "ABSENT"
            THEN /\ Log({"INFO", "ERROR"})
                 /\ result' = "false"
                 /\ pc' = "done"
                 /\ UNCHANGED << op, pollVars >>
            ELSE /\ Log({"INFO"})
                 /\ EnterWait(NewOp("instance restart", "zone"))
                 /\ UNCHANGED result
  /\ UNCHANGED << file, config, logger, cmd, interactive, runs, instance, firewall,
                  localVars, saves, startVars, exception, confirm, instance0,
                  polls, fw, instance_resource >>

\* restart_instance, lines 553-563: after the reset has been awaited; on
\* success time.sleep(5) and show_access_info follow
restart_instance_after ==
  /\ pc = "wait_return"
  /\ op.type = "instance restart"
  /\ LeaveWait
  /\ IF waitResult = "true"
       THEN /\ Log({"SUCCESS"})
            /\ pc' = "show_access_info"
            /\ UNCHANGED result
       ELSE /\ IF waitResult = "raised" THEN Log({"ERROR"})
                                        ELSE UNCHANGED << printed, logged >>
            /\ result' = "false"
            /\ pc' = "done"
  /\ UNCHANGED << file, config, logger, cmd, interactive, runs, localVars, requests,
                  saves, startVars, exception, confirm, instance0, calls,
                  polls, fw, instance_resource >>

\* delete_instance, lines 567-577 and 585-587: instances_client.delete,
\* with no existence check before it
delete_instance ==
  /\ pc = "delete_request"
  /\ requests' = requests \cup {"delete"}
  /\ \E raises \in BOOLEAN :
       /\ Call("instances.delete", config["vm_name"], get_zone(config),
               raises \/ instance = "ABSENT")
       /\ IF raises \/ instance = "ABSENT"
            THEN /\ Log({"WARNING", "ERROR"})
                 /\ result' = "false"
                 /\ pc' = "done"
                 /\ UNCHANGED << op, pollVars >>
            ELSE /\ Log({"WARNING"})
                 /\ EnterWait(NewOp("instance deletion", "zone"))
                 /\ UNCHANGED result
  /\ UNCHANGED << file, config, logger, cmd, interactive, runs, instance, firewall,
                  localVars, saves, startVars, exception, confirm, instance0,
                  polls, fw, instance_resource >>

\* delete_instance, lines 579-587: after the deletion has been awaited
delete_instance_after ==
  /\ pc = "wait_return"
  /\ op.type = "instance deletion"
  /\ LeaveWait
  /\ IF waitResult = "true"
       THEN /\ Log({"SUCCESS"})
            /\ result' = "true"
       ELSE /\ IF waitResult = "raised" THEN Log({"ERROR"})
                                        ELSE UNCHANGED << printed, logged >>
            /\ result' = "false"
  /\ pc' = "done"
  /\ UNCHANGED << file, config, logger, cmd, interactive, runs, localVars, requests,
                  saves, startVars, exception, confirm, instance0, calls,
                  polls, fw, instance_resource >>

(* ----------------------------- reporting ------------------------------- *)

\* what the terminal shows besides the levelled messages: the
\* "Current Status" line of the summary
StatusLine == "STATUS_LINE"

\* show_status, lines 589-620
show_status ==
  /\ pc = "show_status"
  /\ \E raises \in BOOLEAN :
       /\ Call("instances.get", config["vm_name"], get_zone(config),
               ~Found(raises))
       /\ IF Found(raises) THEN UNCHANGED << printed, logged >>
                           ELSE Log({"ERROR"})
  /\ pc' = "done"
  /\ UNCHANGED << file, config, logger, cmd, interactive, runs, remoteVars, pollVars,
                  localVars, requests, saves, result, startVars, exception,
                  confirm, instance0, polls, fw, instance_resource >>

\* show_deployment_summary, lines 647-665, called by main for the summary
\* command and after a successful create (line 796): the status is fetched
\* through get_instance_status, which logs an error when the get raises
show_deployment_summary ==
  /\ pc = "show_deployment_summary"
  /\ \E raises \in BOOLEAN :
       /\ Call("instances.get", config["vm_name"], get_zone(config),
               ~Found(raises))
       /\ IF get_instance_status(raises) = "None"
            THEN Log({"ERROR"})
            ELSE /\ printed' = printed \cup {StatusLine}
                 /\ UNCHANGED logged
  /\ pc' = IF cmd = "create" /\ ~InteractiveMode(interactive, cmd)
             THEN "show_access_info" ELSE "done"
  /\ UNCHANGED << file, config, logger, cmd, interactive, runs, remoteVars, pollVars,
                  localVars, requests, saves, result, startVars, exception,
                  confirm, instance0, polls, fw, instance_resource >>

\* show_access_info, lines 622-645, called by main for the info command and
\* after create (line 797), and by start_instance (line 496) and
\* restart_instance (line 556), which then return True
show_access_info ==
  /\ pc = "show_access_info"
  /\ \E raises \in BOOLEAN :
       /\ Call("instances.get", config["vm_name"], get_zone(config),
               ~Found(raises))
       /\ IF Found(raises) THEN UNCHANGED << printed, logged >>
                           ELSE Log({"ERROR"})
  /\ result' = IF cmd \in {"start", "restart"} THEN "true" ELSE result
  /\ pc' = "done"
  /\ UNCHANGED << file, config, logger, cmd, interactive, runs, remoteVars, pollVars,
                  localVars, requests, saves, startVars, exception, confirm,
                  instance0, polls, fw, instance_resource >>

(* ------------------------ interactive editor --------------------------- *)

\* str.upper() on the characters the state answers are made of
UpperChar(c) ==
  CASE c = "t" -> "T"
    [] c = "e" -> "E"
    [] c = "r" -> "R"
    [] c = "m" -> "M"
    [] c = "i" -> "I"
    [] c = "n" -> "N"
    [] c = "a" -> "A"
    [] c = "d" -> "D"
    [] c = "u" -> "U"
    [] c = "g" -> "G"
    [] OTHER   -> c

\* interactive_config, line 750: state_input.upper()
Upper(answer) == [i \in DOMAIN answer |-> UpperChar(answer[i])]

\* __init__, lines 55-64: the machine types and regions offered
machine_types ==
  { "f1-micro", "e2-micro", "e2-small", "e2-medium", "n1-standard-1",
    "n1-standard-2", "n2-standard-2" }

regions ==
  { "us-central1", "us-east1", "us-west1", "us-west2", "europe-west1",
    "europe-west2", "asia-southeast1" }

\* int(disk_input), line 716: the number, or ValueError is raised
ParseInt(text) ==
  CASE text = "50"  -> [raised |-> FALSE, value |-> 50]
    [] text = "500" -> [raised |-> FALSE, value |-> 500]
    [] OTHER        -> [raised |-> TRUE, value |-> 0]

\* the answers typed at the prompts of interactive_config, stripped; the
\* y/n answers and the state answer are sequences of characters
BlankInputs ==
  [ project_id |-> "", vm_name |-> "", region |-> "", machine_type |-> "",
    os_choice |-> "", disk_input |-> "", http_input |-> << >>,
    monitoring_input |-> << >>, preemptible_input |-> << >>,
    state_input |-> << >> ]

\* two sessions at the editor: in each some prompts are left blank, some
\* answers are accepted and some are rejected
EditorInputs ==
  { [ BlankInputs EXCEPT !.region = "us-west1", !.machine_type = "huge",
                         !.os_choice = "windows", !.disk_input = "500",
                         !.http_input = <<"n">>,
                         !.preemptible_input = <<"Y", "e", "s">>,
                         !.state_input = <<"t", "e", "r", "m", "i", "n", "a",
                                           "t", "e", "d">> ],
    [ BlankInputs EXCEPT !.region = "mars", !.os_choice = "debian",
                         !.disk_input = "50", !.http_input = <<"Y">>,
                         !.preemptible_input = <<"n", "o">>,
                         !.state_input = <<"r", "u", "n", "n", "i", "n",
                                           "g">> ] }

\* interactive_config, lines 725-745: a y/n answer sets the flag, any other
\* answer keeps it
YesNo(answer, current) ==
  IF Lower(answer) \in { <<"y">>, <<"y", "e", "s">> } THEN TRUE
  ELSE IF Lower(answer) \in { <<"n">>, <<"n", "o">> } THEN FALSE
  ELSE current

\* interactive_config, lines 747-752: the state answer, upper-cased
EditedState(answer, current) ==
  IF Upper(answer) = <<"R", "U", "N", "N", "I", "N", "G">> THEN "RUNNING"
  ELSE IF Upper(answer) = <<"T", "E", "R", "M", "I", "N", "A", "T", "E", "D">>
    THEN "TERMINATED"
    ELSE current

\* interactive_config, lines 711-722: the disk size answer
EditedDisk(text, current) ==
  IF text = "" \/ ParseInt(text).raised THEN current
  ELSE IF 10 <= ParseInt(text).value /\ ParseInt(text).value <= 100
    THEN ParseInt(text).value
    ELSE current

\* interactive_config, lines 671-752: the configuration after the answers
Edited(cfg, in) ==
  [ cfg EXCEPT
      !["project_id"] = IF in.project_id # "" THEN in.project_id ELSE @,
      !["vm_name"] = IF in.vm_name # "" THEN in.vm_name ELSE @,
      !["region"] = IF in.region \in regions THEN in.region ELSE @,
      !["machine_type"] =
         IF in.machine_type \in machine_types THEN in.machine_type ELSE @,
      !["os_choice"] = IF in.os_choice \in os_images THEN in.os_choice ELSE @,
      !["disk_size"] = EditedDisk(in.disk_input, @),
      !["enable_http_server"] = YesNo(in.http_input, @),
      !["enable_monitoring"] = YesNo(in.monitoring_input, @),
      !["preemptible"] = YesNo(in.preemptible_input, @),
      !["instance_state"] = EditedState(in.state_input, @) ]

\* interactive_config: an answer that is rejected with a warning
Rejected(in) ==
  \/ in.region # "" /\ in.region \notin regions
  \/ in.machine_type # "" /\ in.machine_type \notin machine_types
  \/ in.os_choice # "" /\ in.os_choice \notin os_images
  \/ in.disk_input # "" /\ ParseInt(in.disk_input).raised
  \/ in.disk_input # "" /\ ~ParseInt(in.disk_input).raised
       /\ ~(10 <= ParseInt(in.disk_input).value
            /\ ParseInt(in.disk_input).value <= 100)

\* interactive_config, lines 667-759: the answers are applied, the
\* configuration is saved and the summary is shown
interactive_config ==
  /\ pc = "interactive_config"
  /\ \E in \in EditorInputs, ok \in BOOLEAN :
       /\ config' = Edited(config, in)
       /\ save_config(config', ok)
       /\ Log({SaveLevel(ok), "SUCCESS"}
              \cup IF Rejected(in) THEN {"WARNING"} ELSE {})
  /\ pc' = "show_deployment_summary"
  /\ UNCHANGED << logger, cmd, interactive, runs, remoteVars, pollVars,
                  localVars, requests, result, startVars, exception, confirm,
                  instance0, calls, polls, fw, instance_resource >>

(* --------------------------- process exit ------------------------------ *)

\* the process ends: main returned ("done"), an exception escaped
\* ("crashed"), or sys.exit(1) ran ("exited"); only the file and the remote
\* resources outlive it
Exit ==
  /\ pc \in {"done", "crashed", "exited"}
  /\ pc' = "idle"
  /\ config' = NoDoc
  /\ logger' = FALSE
  /\ cmd' = "none"
  /\ interactive' = FALSE
  /\ existing_instance' = "unset"
  /\ status' = "unset"
  /\ cascade' = FALSE
  /\ requests' = {}
  /\ saves' = 0
  /\ result' = "none"
  /\ printed' = {}
  /\ logged' = {}
  /\ config0' = NoDoc
  /\ file0' = file
  /\ exception' = "none"
  /\ confirm' = << >>
  /\ instance0' = instance
  /\ calls' = << >>
  /\ polls' = {}
  /\ fw' = "unset"
  /\ instance_resource' = NoResource
  /\ UNCHANGED << file, runs, remoteVars, pollVars >>

Next ==
  \/ Main
  \/ load_config
  \/ setup_logging
  \/ setup_gcp_clients
  \/ DispatchInteractive
  \/ Dispatch
  \/ interactive_config
  \/ RemoteProgress
  \/ wait_for_operation
  \/ create_instance
  \/ create_firewall_rule
  \/ create_firewall_rule_insert
  \/ create_firewall_rule_after
  \/ create_instance_build
  \/ create_instance_insert
  \/ create_instance_after
  \/ create_instance_return
  \/ stop_instance
  \/ stop_instance_request
  \/ stop_instance_after
  \/ start_instance
  \/ start_instance_request
  \/ start_instance_after
  \/ start_instance_sleep
  \/ restart_instance
  \/ restart_instance_after
  \/ delete_instance
  \/ delete_instance_after
  \/ show_status
  \/ show_deployment_summary
  \/ show_access_info
  \/ Exit

Spec == Init /\ [][Next]_vars

\* the single thread keeps running: a started poll loop takes its next
\* iteration; nothing obliges the remote side to finish an operation
LiveSpec == Spec /\ WF_vars(wait_for_operation)

(* ============================ properties =============================== *)

\* the command left the configuration, in memory and on disk, alone
ConfigUntouched == config = config0 /\ file = file0 /\ saves = 0

\* create_instance has returned to main
CreateReturned ==
  /\ cmd = "create"
  /\ ~InteractiveMode(interactive, cmd)
  /\ pc \in {"show_deployment_summary", "show_access_info", "done"}

(* C1: when create_instance's existence check finds the instance, create
   returns success, submits no firewall, instance-insert or stop request and
   leaves the configuration unchanged, on every repetition of create. *)
C1_CreateIdempotent ==
  (cmd = "create" /\ existing_instance = "found")
    => /\ CreateReturned
       /\ result = "true"
       /\ requests = {}
       /\ ConfigUntouched

C1_Witness ==
  /\ runs >= 2
  /\ cmd = "create"
  /\ existing_instance = "found"
  /\ pc = "done"
  /\ result = "true"

(* C2: when stop_instance fetches TERMINATED or STOPPED it returns success
   without a stop request, without polling an operation and without
   modifying or saving the configuration. *)
C2_StopIdempotent ==
  (cmd \in {"stop", "create"} /\ status \in {"TERMINATED", "STOPPED"})
    => /\ "stop" \notin requests
       /\ pc \notin {"stop_request", "wait", "wait_return"}
       /\ result = "true"
       /\ ConfigUntouched
       /\ cmd = "stop" => (pc = "done" /\ requests = {} /\ op = NoOp)

C2_Witness ==
  /\ cmd = "stop"
  /\ status = "STOPPED"
  /\ instance = "STOPPED"
  /\ pc = "done"
  /\ result = "true"

(* C3: start_instance issues a start request only when the status it fetched
   is present and not RUNNING; RUNNING returns success and a missing
   instance returns failure, both without a request and without modifying
   or saving the configuration. *)
C3_StartPrecheck ==
  cmd = "start"
    => /\ "start" \in requests => status \notin {"unset", "None", "RUNNING"}
       /\ status = "RUNNING"
            => (pc = "done" /\ result = "true" /\ requests = {}
                /\ ConfigUntouched)
       /\ status = "None"
            => (pc = "done" /\ result = "false" /\ requests = {}
                /\ ConfigUntouched)

C3_Witness ==
  /\ cmd = "start"
  /\ instance = "ABSENT"
  /\ status = "None"
  /\ pc = "done"
  /\ result = "false"

(* C4: wait_for_operation returns exactly at the first DONE status, with
   success when it carries no error and failure when it carries one, having
   emitted one progress report per non-terminal status seen before it. *)
C4_PollerContract ==
  /\ pc = "wait"
       => /\ progress = Len(seen)
          /\ \A i \in 1..Len(seen) : seen[i] # "DONE"
  /\ (pc = "wait_return" /\ waitResult \in {"true", "false"})
       => /\ Len(seen) >= 1
          /\ seen[Len(seen)] = "DONE"
          /\ \A i \in 1..(Len(seen) - 1) : seen[i] # "DONE"
          /\ progress = Len(seen) - 1
          /\ waitResult = "true" <=> ~op.error

C4_Witness ==
  /\ pc = "wait_return"
  /\ waitResult = "false"
  /\ op.error
  /\ Len(seen) >= 3
  /\ progress >= 2

(* C5: wait_for_operation has no timeout: it never returns while every
   status fetched so far is non-terminal, and once the operation is DONE it
   returns, provided the status fetches do not raise. *)
C5_NoTimeout ==
  /\ [](pc = "wait_return" /\ waitResult # "raised"
          => \E i \in 1..Len(seen) : seen[i] = "DONE")
  /\ [](waitResult # "raised")
       => ((pc = "wait" /\ op.status = "DONE")
             ~> (pc = "wait_return" /\ waitResult \in {"true", "false"}))

C5_Witness ==
  /\ pc = "wait_return"
  /\ waitResult = "true"
  /\ Len(seen) = MaxPolls + 1
  /\ seen[1] = "PENDING"

(* C6: when start_instance (stop_instance) has issued its request and the
   poller reported success, the desired state in memory is RUNNING
   (TERMINATED) and save_config has been called before the operation
   returns success, for start before the pause and the access information. *)
C6_PersistDesiredState ==
  /\ (cmd = "start"
      /\ \/ pc \in {"start_sleep", "show_access_info"}
         \/ pc = "done" /\ result = "true" /\ "start" \in requests)
       => (config["instance_state"] = "RUNNING" /\ saves = 1)
  /\ ("stop" \in requests /\ result = "true"
      /\ \/ pc = "create_stop_return"
         \/ cmd = "stop" /\ pc = "done")
       => (config["instance_state"] = "TERMINATED" /\ saves = 1)

C6_Witness ==
  /\ cmd = "start"
  /\ pc = "start_sleep"
  /\ config0["instance_state"] = "TERMINATED"
  /\ config["instance_state"] = "RUNNING"
  /\ saves = 1

\* create_instance submitted the insert, awaited it with success and returned
CreatedAndReturned ==
  CreateReturned /\ "insert" \in requests /\ result = "true"

(* C7, as stated: after a successful creation create issues a stop request
   before it returns exactly when the desired state is TERMINATED. *)
C7_Original ==
  CreatedAndReturned
    => (config0["instance_state"] = "TERMINATED" <=> "stop" \in requests)

(* C7, amended: after a successful creation with desired state TERMINATED
   create calls stop_instance before it returns, and a stop request is
   issued exactly when the status stop_instance fetched is present and not
   TERMINATED or STOPPED; with desired state RUNNING stop_instance is not
   called and no stop request is issued. *)
C7_CascadingStop ==
  CreatedAndReturned
    => IF config0["instance_state"] = "TERMINATED"
         THEN /\ status # "unset"
              /\ "stop" \in requests
                   <=> status \notin {"None", "TERMINATED", "STOPPED"}
         ELSE /\ status = "unset"
              /\ "stop" \notin requests

C7_Witness ==
  /\ CreatedAndReturned
  /\ pc = "done"
  /\ config0["instance_state"] = "TERMINATED"
  /\ "stop" \in requests
  /\ instance = "TERMINATED"

(* C8: constructing the manager on a missing configuration file creates the
   file with the default configuration, yields the defaults in memory and
   goes on to setup_logging without raising. *)
C8_MissingFileCreated ==
  [][(pc = "load_config" /\ file.kind = "absent")
       => /\ file' = [kind |-> "object", doc |-> default_config]
          /\ config' = default_config
          /\ pc' = "setup_logging"]_vars

(* C9: constructing the manager on a configuration file that fails to parse
   yields the defaults in memory, reports an error and goes on to
   setup_logging without raising. *)
C9_ParseFailureRecovered ==
  [][(pc = "load_config" /\ file.kind = "corrupt")
       => /\ config' = default_config
          /\ "ERROR" \in printed'
          /\ pc' = "setup_logging"]_vars

(* C10: load_config on a JSON object returns a mapping over the union of
   the on-disk keys and the default keys, every on-disk key with its on-disk
   value and every other default key with its default value. *)
C10_LoadMerge ==
  (pc = "setup_logging" /\ file0.kind = "object")
    => /\ DOMAIN config = DOMAIN file0.doc \cup DOMAIN default_config
       /\ \A k \in DOMAIN config :
            config[k] = IF k \in DOMAIN file0.doc THEN file0.doc[k]
                                                  ELSE default_config[k]

C10_Witness ==
  /\ pc = "setup_logging"
  /\ file0.kind = "object"
  /\ "owner" \in DOMAIN file0.doc
  /\ "os_choice" \in DOMAIN file0.doc
  /\ "project_id" \notin DOMAIN file0.doc
  /\ config["owner"] = "ops"
  /\ config["os_choice"] = "debian"

\* the command has been dispatched by main (lines 792-815)
Dispatched == config0 # NoDoc /\ ~InteractiveMode(interactive, cmd)

\* the calls of this invocation that raised a provider error
RaisedCalls == { i \in DOMAIN calls : calls[i].raised }

\* create_instance's existence check is the first call of a create
ExistenceCheck(i) == cmd = "create" /\ i = 1

\* the mutating requests of the remote API
RequestApis ==
  { "firewalls.insert", "instances.insert", "instances.start",
    "instances.stop", "instances.reset", "instances.delete" }

\* the stop that create_instance cascades into
CascadedCall(i) == cmd = "create" /\ calls[i].api = "instances.stop"
CascadedPoll(p) == cmd = "create" /\ p.type = "instance stop"

(* C11, as stated: a provider error raised by any remote call of a command
   is caught and turned into a logged failure and a false or absent result,
   and never propagates out of the command. *)
C11_Original ==
  /\ exception # "ProviderError"
  /\ (pc = "done" /\ (RaisedCalls # {} \/ \E p \in polls : p.raised))
       => ("ERROR" \in logged /\ result # "true")

(* C11, amended: a provider error raised by any remote call of a command
   never propagates out of the command.  Apart from the existence get of
   create and the firewall get, whose errors are swallowed and taken as
   "absent", it is logged as an error; an error of the status get of start
   or stop, of a mutating request or of an operation-status get makes the
   operation that issued it return false (create still returns success when
   that operation is its cascaded stop). *)
C11_ProviderErrorsCaught ==
  /\ exception # "ProviderError"
  /\ \A i \in RaisedCalls :
       (calls[i].api # "firewalls.get" /\ ~ExistenceCheck(i))
         => "ERROR" \in logged
  /\ \A p \in polls :
       (p.raised /\ pc \notin {"wait", "wait_return"}) => "ERROR" \in logged
  /\ pc = "done"
       => /\ (cmd \in {"start", "stop"} /\ Dispatched /\ calls # << >>
               /\ calls[1].raised)
               => result = "false"
          /\ \A i \in RaisedCalls :
               (calls[i].api \in RequestApis /\ ~CascadedCall(i))
                 => result = "false"
          /\ \A p \in polls :
               (p.raised /\ ~CascadedPoll(p)) => result = "false"
  /\ pc = "create_stop_return"
       => /\ \A i \in RaisedCalls : CascadedCall(i) => result = "false"
          /\ \A p \in polls : (p.raised /\ CascadedPoll(p)) => result = "false"

C11_Witness ==
  /\ cmd = "create"
  /\ pc = "done"
  /\ result = "true"
  /\ \E p \in polls : p.type = "instance stop" /\ p.raised
  /\ "ERROR" \in logged

\* the commands that change the remote instance
MutatingCommands == {"create", "start", "stop", "restart", "delete"}

(* C12: every mutating operation ends by returning a boolean and never by
   raising, whatever the loaded configuration, an OS choice outside the image
   mapping included. *)
C12_NeverRaises ==
  (cmd \in MutatingCommands /\ Dispatched)
    => /\ pc # "crashed"
       /\ exception = "none"
       /\ (pc = "done" /\ calls # << >>) => result \in {"true", "false"}

(* C13: every change of the configuration in memory is followed by a save,
   so that when a command has finished and no write failed the file on disk
   equals the configuration in memory. *)
C13_ConfigSync ==
  (pc = "done" /\ "ERROR" \notin logged)
    => file = [kind |-> "object", doc |-> config]

\* the answers that equal "yes" up to case
YesAnswers ==
  { <<a, b, c>> : a \in {"y", "Y"}, b \in {"e", "E"}, c \in {"s", "S"} }

(* C14: the delete command issues a remote delete request only if the
   answer to the confirmation equals "yes" up to case; for every other
   answer no remote request of any kind is issued and the instance is left
   untouched. *)
C14_DeleteNeedsYes ==
  (cmd = "delete" /\ ~interactive)
    => /\ (calls # << >> \/ polls # {} \/ requests # {} \/ op # NoOp)
            => confirm \in YesAnswers
       /\ (pc = "done" /\ confirm \notin YesAnswers)
            => (calls = << >> /\ polls = {} /\ requests = {}
                /\ instance = instance0 /\ result = "none")

C14_Witness ==
  /\ cmd = "delete"
  /\ ~interactive
  /\ pc = "done"
  /\ confirm = <<"y">>
  /\ instance0 = "RUNNING"
  /\ instance = "RUNNING"
  /\ calls = << >>

(* C15: restart_instance and delete_instance issue their reset or delete
   request without querying the instance status first, and on every outcome
   they neither modify the configuration in memory nor write the file. *)
C15_RestartDeleteUnconditional ==
  (cmd \in {"restart", "delete"} /\ Dispatched)
    => /\ ConfigUntouched
       /\ status = "unset"
       /\ existing_instance = "unset"
       /\ calls # << >>
            => calls[1].api = IF cmd = "restart" THEN "instances.reset"
                                                 ELSE "instances.delete"

C15_Witness ==
  /\ cmd = "restart"
  /\ pc = "done"
  /\ result = "true"
  /\ Len(calls) = 2
  /\ calls[1].api = "instances.reset"
  /\ "ERROR" \notin logged

(* C16: show_deployment_summary on an instance that does not exist renders
   no current-status line and reports no error, printed or logged; on an
   instance that exists it renders the current-status line. *)
C16_SummaryAbsentNoError ==
  (cmd = "summary" /\ pc = "done")
    => IF instance = "ABSENT"
         THEN /\ StatusLine \notin printed
              /\ "ERROR" \notin printed
              /\ "ERROR" \notin logged
         ELSE ~calls[1].raised => StatusLine \in printed

\* the zone a configuration resolves to: the configured zone, or the region
\* followed by "-a"
ResolvedZone(cfg) ==
  CASE cfg["zone"] # ""             -> cfg["zone"]
    [] cfg["region"] = "us-west1"    -> "us-west1-a"
    [] cfg["region"] = "us-central1" -> "us-central1-a"

(* C17: generate_startup_script returns header, optional HTTP section and
   footer; header and footer are always there and the script embeds the
   instance name and the resolved zone; with HTTP enabled ubuntu yields the
   Apache section embedding the instance name, debian the Nginx section, any
   other OS choice no HTTP section. *)
C17_StartupScript ==
  instance_resource.built
    => LET script == instance_resource.startup_script
           n      == Len(script)
           http   == config["enable_http_server"]
           os     == config["os_choice"]
       IN  /\ n >= 2
           /\ script[1].section = "header"
           /\ script[1].vm_name = config["vm_name"]
           /\ script[1].zone = ResolvedZone(config)
           /\ script[n].section = "footer"
           /\ \A i \in 2..(n - 1) : script[i].section \in {"apache", "nginx"}
           /\ IF http /\ os = "ubuntu"
                THEN /\ n = 3
                     /\ script[2].section = "apache"
                     /\ script[2].vm_name = config["vm_name"]
                ELSE IF http /\ os = "debian"
                  THEN n = 3 /\ script[2].section = "nginx"
                  ELSE n = 2

C17_Witness ==
  /\ instance_resource.built
  /\ config["os_choice"] = "centos"
  /\ config["enable_http_server"]
  /\ Len(instance_resource.startup_script) = 2

\* the calls that take a zone argument
ZoneCalls == { i \in DOMAIN calls : calls[i].api \notin
                 {"firewalls.get", "firewalls.insert"} }

(* C18: every remote call that takes a zone, and the startup script, use
   the configured zone when it is set and the region followed by "-a"
   otherwise (region us-west1 with no zone gives us-west1-a); the existence
   check, the request and the polling of one command use the same zone. *)
C18_ZoneResolution ==
  Dispatched
    => /\ \A i \in ZoneCalls : calls[i].zone = ResolvedZone(config0)
       /\ \A p \in polls : p.via = "zone" => p.zone = ResolvedZone(config0)
       /\ instance_resource.built
            => /\ instance_resource.zone = ResolvedZone(config0)
               /\ instance_resource.startup_script[1].zone
                    = ResolvedZone(config0)

C18_Witness ==
  /\ Dispatched
  /\ cmd = "stop"
  /\ pc = "done"
  /\ config0["zone"] = ""
  /\ config0["region"] = "us-west1"
  /\ Len(calls) = 2
  /\ calls[1].zone = "us-west1-a"
  /\ calls[2].zone = "us-west1-a"
  /\ \E p \in polls : p.zone = "us-west1-a"

(* C19: wait_for_operation polls a zone-scoped handle with the zone
   operation-status call and a global handle with the global one; the
   operation of the firewall insert is never polled through the zone call. *)
C19_PollScopeDispatch ==
  \A p \in polls :
    p.via = IF p.type = "firewall rule creation" THEN "global" ELSE "zone"

\* some call before index j found the firewall rule or created it
FirewallEnsuredBefore(j) ==
  \E i \in 1..(j - 1) :
    /\ calls[i].name = config0["vm_name"] \o "-allow-http"
    /\ ~calls[i].raised
    /\ \/ calls[i].api = "firewalls.get"
       \/ calls[i].api = "firewalls.insert" /\ fw = "created"

\* a failed firewall step ends create with failure and without an insert
FirewallFailureEndsCreate ==
  fw = "failed"
    => /\ "insert" \notin requests
       /\ pc = "done"
       /\ result = "false"

(* C20, as stated: whenever create_instance submits the instance insert, the
   firewall rule <instance name>-allow-http was found or created earlier in
   the same call; a failed firewall step ends create without an insert. *)
C20_Original ==
  /\ \A j \in DOMAIN calls :
       calls[j].api = "instances.insert" => FirewallEnsuredBefore(j)
  /\ FirewallFailureEndsCreate

(* C20, amended: with the HTTP server enabled, whenever create_instance
   submits the instance insert, the firewall rule <instance name>-allow-http
   was found or created earlier in the same call; with the HTTP server
   disabled create_firewall_rule makes no firewall call and the insert is
   submitted without one; a failed firewall step ends create with failure
   and without an insert. *)
C20_FirewallBeforeInstance ==
  /\ \A j \in DOMAIN calls :
       calls[j].api = "instances.insert"
         => IF config0["enable_http_server"]
              THEN FirewallEnsuredBefore(j)
              ELSE /\ fw = "skipped"
                   /\ \A i \in DOMAIN calls :
                        calls[i].api \notin {"firewalls.get", "firewalls.insert"}
  /\ FirewallFailureEndsCreate

C20_Witness ==
  /\ Dispatched
  /\ cmd = "create"
  /\ config0["enable_http_server"]
  /\ fw = "exists"
  /\ Len(calls) = 3
  /\ calls[2].api = "firewalls.get"
  /\ calls[2].name = "python-managed-vm-allow-http"
  /\ calls[3].api = "instances.insert"
  /\ ~calls[3].raised

(* C21: no command ever issues a firewall delete request and no step of any
   command removes the firewall rule, so a rule that exists persists across
   every later outcome, a failed create included. *)
C21_NoFirewallRollback ==
  [][/\ firewall => firewall'
     /\ \A i \in DOMAIN calls' : calls'[i].api # "firewalls.delete"]_vars

C21_Witness ==
  /\ Dispatched
  /\ cmd = "create"
  /\ pc = "done"
  /\ result = "false"
  /\ fw = "exists"
  /\ firewall
  /\ instance = "ABSENT"
  /\ \E i \in DOMAIN calls :
       calls[i].api = "instances.insert" /\ calls[i].raised

(* C22: the scheduling of the instance resource that create_instance
   submits has on-host-maintenance TERMINATE when preemptible and MIGRATE
   otherwise, and automatic-restart true exactly when auto-restart is enabled
   and the instance is not preemptible; a preemptible request never has
   automatic-restart true. *)
C22_SchedulingPolicy ==
  instance_resource.built
    => LET scheduling == instance_resource.scheduling
       IN  /\ scheduling.preemptible = config["preemptible"]
           /\ scheduling.on_host_maintenance \in {"TERMINATE", "MIGRATE"}
           /\ scheduling.on_host_maintenance = "TERMINATE"
                <=> config["preemptible"]
           /\ scheduling.automatic_restart
                <=> (config["auto_restart"] /\ ~config["preemptible"])
           /\ ~(scheduling.preemptible /\ scheduling.automatic_restart)

C22_Witness ==
  /\ "insert" \in requests
  /\ instance_resource.built
  /\ config["preemptible"]
  /\ config["auto_restart"]
  /\ instance_resource.scheduling.on_host_maintenance = "TERMINATE"
  /\ ~instance_resource.scheduling.automatic_restart

(* C23: whenever start_instance or stop_instance returns failure, the
   configuration in memory and the configuration file are as they were
   before the call; the configuration changes only in the step that follows
   a poll that reported success. *)
C23_FailureKeepsDesiredState ==
  [][/\ (Dispatched' /\ cmd' \in {"start", "stop"} /\ pc' = "done"
         /\ result' = "false")
          => ConfigUntouched'
     /\ (pc' = "create_stop_return" /\ result' = "false") => ConfigUntouched'
     /\ (Dispatched /\ Dispatched'
         /\ (config' # config \/ file' # file \/ saves' # saves))
          => /\ pc = "wait_return"
             /\ op.type \in {"instance start", "instance stop"}
             /\ waitResult = "true"]_vars

C23_Witness ==
  /\ Dispatched
  /\ cmd = "stop"
  /\ pc = "done"
  /\ result = "false"
  /\ "stop" \in requests
  /\ \E p \in polls : p.type = "instance stop" /\ p.raised
  /\ ConfigUntouched

\* create_instance called stop_instance, which has returned
CascadedStopReturned ==
  /\ CreateReturned
  /\ "insert" \in requests
  /\ status # "unset"

(* C24: when the instance-creation operation succeeded and the desired
   state is TERMINATED, create_instance returns success whatever
   stop_instance returned. *)
C24_CreateIgnoresStop ==
  CascadedStopReturned
    => (config0["instance_state"] = "TERMINATED" /\ result = "true")

C24_Witness ==
  /\ CascadedStopReturned
  /\ pc = "done"
  /\ result = "true"
  /\ instance = "RUNNING"
  /\ \E i \in DOMAIN calls :
       calls[i].api = "instances.stop" /\ calls[i].raised

(* C25: when the interactive flag is set or the command is config, the
   invocation runs the interactive editor only: whatever the command, no
   mutating remote request is issued, no operation is polled and the remote
   instance is as it was; the editor saves once and main returns. *)
C25_InteractiveOverrides ==
  (interactive \/ cmd = "config")
    => /\ requests = {}
       /\ polls = {}
       /\ \A i \in DOMAIN calls : calls[i].api \notin RequestApis
       /\ instance = instance0
       /\ op = NoOp
       /\ result = "none"
       /\ pc \in {"load_config", "setup_logging", "setup_gcp_clients",
                  "dispatch", "interactive_config",
                  "show_deployment_summary", "done", "crashed", "exited"}
       /\ pc = "done" => saves = 1

C25_Witness ==
  /\ interactive
  /\ cmd = "delete"
  /\ pc = "done"
  /\ saves = 1
  /\ config # config0
  /\ instance0 = "RUNNING"
  /\ instance = "RUNNING"

====
